---- MODULE Spec2Model ----
(***************************************************************************)
(* A model of CAP2_02230090.py: the Account record, the BankingApp ledger  *)
(* with its backing file accounts.txt, and the console loop main().        *)
(*                                                                         *)
(* Strings are sequences of one-character strings, so that to_string,      *)
(* strip, split(',') and float() are computed character by character.      *)
(* Account objects live in a heap (reference -> fields); the dictionary    *)
(* BankingApp.accounts is an insertion-ordered sequence of <<key, ref>>    *)
(* entries, and the session handle of main() is a reference.               *)
(* Balances and amounts are whole numbers of currency units (Python floats *)
(* that print as "<digits>.0"); a float keeps mant_dig significant bits,   *)
(* and a sum or difference is rounded to the nearest float, ties to even.  *)
(***************************************************************************)
EXTENDS Integers, Sequences, FiniteSets, TLC

VARIABLES
    heap,       \* reference -> Account object (the live Python objects)
    accounts,   \* BankingApp.accounts: sequence of [key, ref], insertion order
    file,       \* accounts.txt: sequence of lines written so far
    fileExists, \* os.path.exists(ACCOUNTS_FILE)
    account,    \* main(): the session handle (a reference), None when anonymous
    pc,         \* position of the process
    wi,         \* save_accounts: index of the next dictionary value to write
    op,         \* the operation in progress or last completed, and its result
    restarts,   \* number of times the program was started again
    issued,     \* history: account number -> the secret create_account printed
    deleted     \* history: account numbers removed by delete_account

vars ==
    <<heap, accounts, file, fileExists, account, pc, wi, op, restarts,
      issued, deleted>>

-----------------------------------------------------------------------------
(* Bounds of the model *)

MaxAmount == 1
MaxBalance == 1
MaxRestarts == 1
\* significant bits of a float (sys.float_info.mant_dig, 53 in CPython)
mant_dig == 2

-----------------------------------------------------------------------------
(* Strings *)

None == 0

Digits == <<"0", "1", "2", "3", "4", "5", "6", "7", "8", "9">>

Whitespace == {" ", "\n"}

RECURSIVE str_int(_)
\* str(n) of a non-negative int
str_int(n) ==
    IF n < 10 THEN <<Digits[n + 1]>>
    ELSE str_int(n \div 10) \o <<Digits[(n % 10) + 1]>>

\* str(x) of a float holding a whole number: "100.0", "-1.0"
str_float(x) ==
    (IF x < 0 THEN <<"-">> ELSE <<>>)
        \o str_int(IF x < 0 THEN 0 - x ELSE x) \o <<".", "0">>

IsDigit(c) == \E d \in 1..10 : Digits[d] = c

DigitVal(c) == (CHOOSE d \in 1..10 : Digits[d] = c) - 1

AllDigits(s) == \A i \in 1..Len(s) : IsDigit(s[i])

RECURSIVE int_digits(_)
int_digits(s) ==
    IF Len(s) = 0 THEN 0
    ELSE 10 * int_digits(SubSeq(s, 1, Len(s) - 1)) + DigitVal(s[Len(s)])

RECURSIVE lstrip(_)
lstrip(s) ==
    IF Len(s) > 0 /\ s[1] \in Whitespace THEN lstrip(Tail(s)) ELSE s

RECURSIVE rstrip(_)
rstrip(s) ==
    IF Len(s) > 0 /\ s[Len(s)] \in Whitespace
    THEN rstrip(SubSeq(s, 1, Len(s) - 1)) ELSE s

\* str.strip()
strip(s) == rstrip(lstrip(s))

RECURSIVE split(_, _)
\* str.split(sep): the fields between the separators ("" gives [""])
split(s, sep) ==
    IF \A i \in 1..Len(s) : s[i] # sep THEN <<s>>
    ELSE LET k == CHOOSE i \in 1..Len(s) :
                      s[i] = sep /\ \A j \in 1..(i - 1) : s[j] # sep
         IN  <<SubSeq(s, 1, k - 1)>> \o split(SubSeq(s, k + 1, Len(s)), sep)

\* the parts of a float literal: sign, integer digits, fraction digits
Unsigned(s) == IF Len(s) > 0 /\ s[1] \in {"-", "+"} THEN Tail(s) ELSE s

FloatParts(s) == split(Unsigned(strip(s)), ".")

\* float(s) does not raise ValueError (whole-number literals only)
is_float(s) ==
    LET p == FloatParts(s)
    IN  /\ Len(p) \in {1, 2}
        /\ \A i \in 1..Len(p) : AllDigits(p[i])
        /\ Len(p[1]) + (IF Len(p) = 2 THEN Len(p[2]) ELSE 0) > 0
        /\ Len(p) = 2 => \A i \in 1..Len(p[2]) : p[2][i] = "0"

\* float(s)
float(s) ==
    LET t == strip(s)
        m == int_digits(FloatParts(s)[1])
    IN  IF Len(t) > 0 /\ t[1] = "-" THEN 0 - m ELSE m

RECURSIVE ulp(_)
\* the distance between neighbouring floats at the magnitude m
ulp(m) == IF m < 2 ^ mant_dig THEN 1 ELSE 2 * ulp(m \div 2)

\* the float that an arithmetic result x is rounded to
float_round(x) ==
    LET m == IF x < 0 THEN 0 - x ELSE x
        u == ulp(m)
        q == m \div u
        r == m % u
        n == IF 2 * r > u \/ (2 * r = u /\ q % 2 = 1) THEN q + 1 ELSE q
    IN  IF x < 0 THEN 0 - (n * u) ELSE n * u

-----------------------------------------------------------------------------
(* hash_password and Account *)

\* hashlib.sha256(...).hexdigest(), as an injective tagging of its input
hash_password(password) == <<"h">> \o password

\* an Account that keeps the password as it was given
Account_plain(account_number, password, account_type, balance) ==
    [account_number |-> account_number,
     password       |-> password,
     account_type   |-> account_type,
     balance        |-> balance]

\* Account.__init__
Account(account_number, password, account_type, balance) ==
    [account_number |-> account_number,
     password       |-> hash_password(password),
     account_type   |-> account_type,
     balance        |-> balance]

\* a deposit that assigns the amount instead of adding it
deposit_assign(self, amount) == [self EXCEPT !.balance = amount]

\* Account.deposit
deposit(self, amount) == [self EXCEPT !.balance = float_round(@ + amount)]

\* a guard that refuses to withdraw the whole balance
withdraw_ok_strict(self, amount) == self.balance > amount

\* a guard with the sign of the amount wrong
withdraw_ok_sum(self, amount) == self.balance + amount >= 0

\* Account.withdraw: the test that guards the debit
withdraw_ok(self, amount) == self.balance >= amount

\* a withdrawal that debits without looking at the balance
withdraw_unchecked(self, amount) == [self EXCEPT !.balance = @ - amount]

\* Account.withdraw: the object after the call
withdraw(self, amount) ==
    IF withdraw_ok(self, amount)
    THEN [self EXCEPT !.balance = float_round(@ - amount)]
    ELSE self

\* Account.to_string
to_string(self) ==
    self.account_number \o <<",">> \o self.password \o <<",">>
        \o self.account_type \o <<",">> \o str_float(self.balance) \o <<"\n">>

-----------------------------------------------------------------------------
(* Inputs *)

\* str(random.randint(100000, 999999)), over a small set of numbers
AccountNumbers == {<<"1">>, <<"2">>}

\* str(random.randint(1000, 9999)), over a small set of numbers; the four
\* digits of a secret are never the six digits of an account number
Passwords == {<<"8">>, <<"9">>}

\* input("Enter account type (savings/current): ") is free text
AccountTypes == {<<"s">>, <<"a", ",", "b">>}

\* float(input("Enter amount ...")) accepts any sign
Amounts == (0 - MaxAmount)..MaxAmount

\* input("Enter password: ") is free text: a secret or a digest typed in
LoginInputs == Passwords \cup {hash_password(p) : p \in Passwords}

InRange(b, max) == (0 - max) <= b /\ b <= max

-----------------------------------------------------------------------------
(* The dictionary BankingApp.accounts and the heap *)

Keys(d) == {d[i].key : i \in 1..Len(d)}

Refs(d) == {d[i].ref : i \in 1..Len(d)}

\* d[k]
Lookup(d, k) == (CHOOSE i \in 1..Len(d) : d[i].key = k)

Get(d, k) == d[Lookup(d, k)].ref

\* d[k] = r: an existing key keeps its position
Put(d, k, r) ==
    IF k \in Keys(d)
    THEN [i \in 1..Len(d) |-> IF d[i].key = k THEN [key |-> k, ref |-> r] ELSE d[i]]
    ELSE Append(d, [key |-> k, ref |-> r])

\* del d[k]
Del(d, k) ==
    LET i == Lookup(d, k)
    IN  SubSeq(d, 1, i - 1) \o SubSeq(d, i + 1, Len(d))

\* a reference no live object has
NewRef(h) ==
    CHOOSE r \in 1..(Cardinality(DOMAIN h) + 1) :
        r \notin DOMAIN h /\ \A q \in 1..(r - 1) : q \in DOMAIN h

\* References are addresses, and only which names share an object matters.
\* They are kept canonical: the object of dictionary entry i is at i, and an
\* object that only the session handle still refers to is at Len(d) + 1.
Place(d, r) ==
    IF r \in Refs(d) THEN CHOOSE i \in 1..Len(d) : d[i].ref = r ELSE Len(d) + 1

Live(d, acct) == Refs(d) \cup ({acct} \ {None})

\* the dictionary, the handle and the objects they reach, at canonical places
MoveDict(d) == [i \in 1..Len(d) |-> [key |-> d[i].key, ref |-> i]]

MoveHandle(d, acct) == IF acct = None THEN None ELSE Place(d, acct)

Collect(h, d, acct) ==
    [q \in {Place(d, r) : r \in Live(d, acct)} |->
        h[CHOOSE r \in Live(d, acct) : Place(d, r) = q]]

\* what save_accounts writes in full
Serialized(h, d) == [i \in 1..Len(d) |-> to_string(h[d[i].ref])]

-----------------------------------------------------------------------------
(* load_accounts *)

\* line.strip().split(',')
line_fields(line) == split(strip(line), <<",">>[1])

\* the unpacking into four names and float(balance) do not raise
line_ok(line) ==
    /\ Len(line_fields(line)) = 4
    /\ is_float(line_fields(line)[4])

\* Account(account_number, password, account_type, float(balance))
load_line(line) ==
    LET f == line_fields(line)
    IN  Account(f[1], f[2], f[3], float(f[4]))

RECURSIVE load_dict(_, _)
\* the dictionary after the first n lines: line i becomes object i
load_dict(lines, n) ==
    IF n = 0 THEN <<>>
    ELSE Put(load_dict(lines, n - 1), line_fields(lines[n])[1], n)

load_heap(lines) ==
    Collect([i \in 1..Len(lines) |-> load_line(lines[i])],
            load_dict(lines, Len(lines)), None)

-----------------------------------------------------------------------------
(* The operation record: what main() last called and what it reported *)

\* num: the number create_account drew, or the recipient of a transfer;
\* ret: "pending" while the call runs, then what it reported;
\* saves: how many times the operation called save_accounts;
\* pw: create_account's local variable password, while the call runs;
\* out: the secret that the operation printed, if it printed one
Op(name, num, amount, ret) ==
    [name |-> name, num |-> num, amount |-> amount, ret |-> ret, saves |-> 0,
     pw |-> <<>>, out |-> <<>>, before |-> <<>>]

Init ==
    /\ heap = <<>>
    /\ accounts = <<>>
    /\ file = <<>>
    /\ fileExists = FALSE
    /\ account = None
    /\ pc = "prompt"
    /\ wi = 0
    /\ op = Op("start", <<>>, 0, "ok")
    /\ restarts = 0
    /\ issued = <<>>
    /\ deleted = {}

-----------------------------------------------------------------------------
(* save_accounts, step by step *)

\* the file opened in mode 'a': what it held stays in front of the new lines
save_accounts_open_append ==
    /\ pc = "save_open"
    /\ fileExists' = TRUE
    /\ wi' = 1
    /\ pc' = "save_write"
    /\ op' = [op EXCEPT !.saves = @ + 1]
    /\ UNCHANGED <<heap, accounts, file, account, restarts, issued, deleted>>

\* open(ACCOUNTS_FILE, 'w'): the file is created or truncated
save_accounts_open ==
    /\ pc = "save_open"
    /\ file' = <<>>
    /\ fileExists' = TRUE
    /\ wi' = 1
    /\ pc' = "save_write"
    /\ op' = [op EXCEPT !.saves = @ + 1]
    /\ UNCHANGED <<heap, accounts, account, restarts, issued, deleted>>

\* a save that writes the first value of the dictionary on every line
save_accounts_write_first ==
    /\ pc = "save_write"
    /\ wi <= Len(accounts)
    /\ file' = Append(file, to_string(heap[accounts[1].ref]))
    /\ wi' = wi + 1
    /\ UNCHANGED <<heap, accounts, fileExists, account, pc, op, restarts,
                   issued, deleted>>

\* f.write(account.to_string()) for the next value of the dictionary
save_accounts_write ==
    /\ pc = "save_write"
    /\ wi <= Len(accounts)
    /\ file' = Append(file, to_string(heap[accounts[wi].ref]))
    /\ wi' = wi + 1
    /\ UNCHANGED <<heap, accounts, fileExists, account, pc, op, restarts,
                   issued, deleted>>

\* a return after which main() stays in the session loop even after
\* delete_account (the break is missing)
save_accounts_return_nobreak ==
    /\ pc = "save_write"
    /\ wi > Len(accounts)
    /\ wi' = 0
    /\ pc' = "prompt"
    /\ op' = [op EXCEPT !.ret = "ok", !.num = <<>>, !.amount = 0,
                        !.pw = <<>>, !.before = <<>>,
                        !.out = IF op.name = "create" THEN op.pw ELSE <<>>]
    /\ account' = MoveHandle(accounts, account)
    /\ heap' = Collect(heap, accounts, account)
    /\ accounts' = MoveDict(accounts)
    /\ UNCHANGED <<file, fileExists, restarts, issued, deleted>>

\* the file is closed and the caller goes on: it reports success
\* (create_account prints the number and the secret it drew), and after
\* delete_account main() leaves the session loop
save_accounts_return ==
    /\ pc = "save_write"
    /\ wi > Len(accounts)
    /\ wi' = 0
    /\ pc' = "prompt"
    /\ op' = [op EXCEPT !.ret = "ok", !.num = <<>>, !.amount = 0,
                        !.pw = <<>>, !.before = <<>>,
                        !.out = IF op.name = "create" THEN op.pw ELSE <<>>]
    /\ LET handle == IF op.name = "delete" THEN None ELSE account
       IN  /\ account' = MoveHandle(accounts, handle)
           /\ heap' = Collect(heap, accounts, handle)
           /\ accounts' = MoveDict(accounts)
    /\ UNCHANGED <<file, fileExists, restarts, issued, deleted>>

-----------------------------------------------------------------------------
(* BankingApp operations as main() calls them *)

AtMenu == pc = "prompt" /\ account = None

InSession == pc = "prompt" /\ account # None

\* the balances of the ledger, in the order of the dictionary
Balances == [i \in 1..Len(accounts) |-> heap[accounts[i].ref].balance]

\* the model follows a call only if the balances it leaves are within max
deposit_bounded(amount, max) ==
    /\ InSession
    /\ InRange(deposit(heap[account], amount).balance, max)

withdraw_bounded(amount, max) ==
    /\ InSession
    /\ withdraw_ok(heap[account], amount)
           => InRange(withdraw(heap[account], amount).balance, max)

transfer_bounded(to_account_number, amount, max) ==
    /\ InSession
    /\ (to_account_number \in Keys(accounts) /\ withdraw_ok(heap[account], amount))
           => /\ InRange(withdraw(heap[account], amount).balance, max)
              /\ InRange(deposit(heap[Get(accounts, to_account_number)],
                                 amount).balance, max)

\* choice '1': app.create_account(account_type)
\* (account_number and password are the two random draws)
create_account(account_type, account_number, password) ==
    /\ AtMenu
    /\ LET r == NewRef(heap)
            h == heap @@ (r :> Account(account_number, password, account_type, 0))
           d == Put(accounts, account_number, r)
       IN  /\ accounts' = MoveDict(d)
           /\ heap' = Collect(h, d, None)
           /\ issued' = [k \in DOMAIN issued \cup {account_number} |->
                            IF k = account_number THEN password ELSE issued[k]]
           /\ op' = [Op("create", account_number, 0, "pending")
                        EXCEPT !.pw = password]
    /\ pc' = "save_open"
    /\ UNCHANGED <<file, fileExists, account, wi, restarts, deleted>>

\* BankingApp.login
login(account_number, password) ==
    IF /\ account_number \in Keys(accounts)
       /\ heap[Get(accounts, account_number)].password = hash_password(password)
    THEN Get(accounts, account_number)
    ELSE None

\* choice '2': account = app.login(account_number, password)
main_login(account_number, password) ==
    /\ AtMenu
    /\ account' = login(account_number, password)
    /\ op' = Op("login", <<>>, 0,
                IF account' # None THEN "ok" ELSE "invalid")
    /\ UNCHANGED <<heap, accounts, file, fileExists, pc, wi, restarts,
                   issued, deleted>>

\* action '1': account.deposit(amount); app.save_accounts()
main_deposit(amount) ==
    /\ InSession
    /\ heap' = [heap EXCEPT ![account] = deposit(@, amount)]
    /\ op' = Op("deposit", <<>>, amount, "pending")
    /\ pc' = "save_open"
    /\ UNCHANGED <<accounts, file, fileExists, account, wi, restarts,
                   issued, deleted>>

\* action '2': if account.withdraw(amount): app.save_accounts()
main_withdraw(amount) ==
    /\ InSession
    /\ heap' = [heap EXCEPT ![account] = withdraw(@, amount)]
    /\ IF withdraw_ok(heap[account], amount)
       THEN /\ op' = Op("withdraw", <<>>, amount, "pending")
            /\ pc' = "save_open"
       ELSE /\ op' = Op("withdraw", <<>>, amount, "insufficient")
            /\ pc' = pc
    /\ UNCHANGED <<accounts, file, fileExists, account, wi, restarts,
                   issued, deleted>>

\* action '3': app.transfer_money(account, to_account_number, amount),
\* up to and including from_account.withdraw(amount)
transfer_money(to_account_number, amount) ==
    /\ InSession
    /\ IF to_account_number \in Keys(accounts)
       THEN IF withdraw_ok(heap[account], amount)
            THEN /\ heap' = [heap EXCEPT ![account] = withdraw(@, amount)]
                 /\ op' = [Op("transfer", to_account_number, amount, "pending")
                              EXCEPT !.before = Balances]
                 /\ pc' = "transfer_deposit"
            ELSE /\ heap' = [heap EXCEPT ![account] = withdraw(@, amount)]
                 /\ op' = [Op("transfer", to_account_number, amount, "insufficient")
                              EXCEPT !.before = Balances]
                 /\ pc' = pc
       ELSE /\ heap' = heap
            /\ op' = [Op("transfer", to_account_number, amount, "no_recipient")
                         EXCEPT !.before = Balances]
            /\ pc' = pc
    /\ UNCHANGED <<accounts, file, fileExists, account, wi, restarts,
                   issued, deleted>>

\* transfer_money: to_account.deposit(amount), then self.save_accounts()
transfer_deposit ==
    /\ pc = "transfer_deposit"
    /\ heap' = [heap EXCEPT ![Get(accounts, op.num)] = deposit(@, op.amount)]
    /\ pc' = "save_open"
    /\ UNCHANGED <<accounts, file, fileExists, account, wi, op, restarts,
                   issued, deleted>>

\* action '4': app.delete_account(account.account_number)
delete_account ==
    /\ InSession
    /\ LET account_number == heap[account].account_number
       IN  IF account_number \in Keys(accounts)
           THEN /\ accounts' = MoveDict(Del(accounts, account_number))
                /\ account' = MoveHandle(Del(accounts, account_number), account)
                /\ heap' = Collect(heap, Del(accounts, account_number), account)
                /\ op' = Op("delete", <<>>, 0, "pending")
                /\ pc' = "save_open"
                /\ issued' = [k \in DOMAIN issued \ {account_number} |-> issued[k]]
                /\ deleted' = deleted \cup {account_number}
           ELSE /\ accounts' = accounts
                /\ op' = Op("delete", <<>>, 0, "failed")
                /\ pc' = pc
                /\ UNCHANGED <<heap, account, issued, deleted>>
    /\ UNCHANGED <<file, fileExists, wi, restarts>>

\* action '5': logout
main_logout ==
    /\ InSession
    /\ account' = None
    /\ heap' = Collect(heap, accounts, None)
    /\ op' = Op("logout", <<>>, 0, "ok")
    /\ UNCHANGED <<accounts, file, fileExists, pc, wi, restarts, issued, deleted>>

\* choice '3': the process ends
main_exit ==
    /\ AtMenu
    /\ pc' = "exited"
    /\ heap' = <<>>
    /\ accounts' = <<>>
    /\ op' = Op("exit", <<>>, 0, "ok")
    /\ UNCHANGED <<file, fileExists, account, wi, restarts, issued, deleted>>

\* a start that skips the lines it cannot load and goes on with the rest
main_start_skip ==
    /\ pc \in {"exited", "crashed"}
    /\ restarts < MaxRestarts
    /\ restarts' = restarts + 1
    /\ LET lines == IF fileExists THEN SelectSeq(file, line_ok) ELSE <<>>
       IN  /\ accounts' = MoveDict(load_dict(lines, Len(lines)))
           /\ heap' = load_heap(lines)
    /\ pc' = "prompt"
    /\ op' = Op("start", <<>>, 0, "ok")
    /\ UNCHANGED <<file, fileExists, account, wi, issued, deleted>>

\* the program is run again: app = BankingApp() loads the file, and a
\* line that does not unpack or convert ends the process with the error
main_start ==
    /\ pc \in {"exited", "crashed"}
    /\ restarts < MaxRestarts
    /\ restarts' = restarts + 1
    /\ IF ~fileExists
       THEN /\ accounts' = <<>>
            /\ heap' = <<>>
            /\ pc' = "prompt"
            /\ op' = Op("start", <<>>, 0, "ok")
       ELSE IF \A i \in 1..Len(file) : line_ok(file[i])
            THEN /\ accounts' = MoveDict(load_dict(file, Len(file)))
                 /\ heap' = load_heap(file)
                 /\ pc' = "prompt"
                 /\ op' = Op("start", <<>>, 0, "ok")
            ELSE /\ accounts' = <<>>
                 /\ heap' = <<>>
                 /\ pc' = "crashed"
                 /\ op' = Op("start", <<>>, 0, "error")
    /\ UNCHANGED <<file, fileExists, account, wi, issued, deleted>>

Next ==
    \/ \E t \in AccountTypes, n \in AccountNumbers, p \in Passwords :
           create_account(t, n, p)
    \/ \E n \in AccountNumbers, p \in LoginInputs : main_login(n, p)
    \/ \E a \in Amounts : deposit_bounded(a, MaxBalance) /\ main_deposit(a)
    \/ \E a \in Amounts : withdraw_bounded(a, MaxBalance) /\ main_withdraw(a)
    \/ \E n \in AccountNumbers, a \in Amounts :
           transfer_bounded(n, a, MaxBalance) /\ transfer_money(n, a)
    \/ transfer_deposit
    \/ delete_account
    \/ main_logout
    \/ main_exit
    \/ main_start
    \/ save_accounts_open
    \/ save_accounts_write
    \/ save_accounts_return

Spec == Init /\ [][Next]_vars

-----------------------------------------------------------------------------
(* One run of the program (no exit and restart), three account numbers,  *)
(* one secret and one account type: the ledger operations on their own.  *)

LedgerNumbers == AccountNumbers \cup {<<"3">>}

LedgerNext ==
    \/ \E n \in LedgerNumbers : create_account(<<"s">>, n, <<"8">>)
    \/ \E n \in LedgerNumbers, p \in LoginInputs : main_login(n, p)
    \/ \E a \in Amounts : deposit_bounded(a, MaxBalance) /\ main_deposit(a)
    \/ \E a \in Amounts : withdraw_bounded(a, MaxBalance) /\ main_withdraw(a)
    \/ \E n \in LedgerNumbers, a \in Amounts :
           transfer_bounded(n, a, MaxBalance) /\ transfer_money(n, a)
    \/ transfer_deposit
    \/ delete_account
    \/ main_logout
    \/ save_accounts_open
    \/ save_accounts_write
    \/ save_accounts_return

LedgerSpec == Init /\ [][LedgerNext]_vars

-----------------------------------------------------------------------------
(* Accounts and credentials across runs of the program: creating, logging *)
(* in and out, deleting, leaving and starting again, with every account   *)
(* number, secret and account type, and no money moved.                   *)

AccessNext ==
    \/ \E t \in AccountTypes, n \in AccountNumbers, p \in Passwords :
           create_account(t, n, p)
    \/ \E n \in AccountNumbers, p \in LoginInputs : main_login(n, p)
    \/ delete_account
    \/ main_logout
    \/ main_exit
    \/ main_start
    \/ save_accounts_open
    \/ save_accounts_write
    \/ save_accounts_return

AccessSpec == Init /\ [][AccessNext]_vars

-----------------------------------------------------------------------------
(* One run with deposits and transfers of amounts as large as the floats *)
(* that no longer hold every whole number: two account numbers, one      *)
(* secret and one account type.                                          *)

RoundingAmounts == {1, 2 ^ mant_dig}

RoundingMax == 2 ^ (mant_dig + 1)

RoundingNext ==
    \/ \E n \in AccountNumbers : create_account(<<"s">>, n, <<"8">>)
    \/ \E n \in AccountNumbers : main_login(n, <<"8">>)
    \/ \E a \in RoundingAmounts :
           deposit_bounded(a, RoundingMax) /\ main_deposit(a)
    \/ \E n \in AccountNumbers, a \in RoundingAmounts :
           transfer_bounded(n, a, RoundingMax) /\ transfer_money(n, a)
    \/ transfer_deposit
    \/ main_logout
    \/ save_accounts_open
    \/ save_accounts_write
    \/ save_accounts_return

RoundingSpec == Init /\ [][RoundingNext]_vars

-----------------------------------------------------------------------------
(* Properties *)

Mutating == {"create", "deposit", "withdraw", "transfer", "delete"}

Saving == {"save_open", "save_write"}

\* the balance field (the last field) of the file's line for account number k
PersistedBalance(k) ==
    LET i == CHOOSE j \in 1..Len(file) : line_fields(file[j])[1] = k
        f == line_fields(file[i])
    IN  float(f[Len(f)])

\* C1: in every reachable state every account in the ledger has balance >= 0
C1_BalanceNonNegative ==
    \A i \in 1..Len(accounts) : heap[accounts[i].ref].balance >= 0

\* C2: at the menu, for every account in the ledger and every secret s,
\* login(number, s) returns the account iff s is the secret create_account
\* generated for it, also after restarts, and the account it returns has the
\* balance the file records
C2_LoginIffIssuedSecret ==
    AtMenu =>
        \A k \in Keys(accounts) : \A s \in LoginInputs :
            /\ (login(k, s) # None) <=> (s = issued[k])
            /\ login(k, s) # None =>
                   /\ login(k, s) = Get(accounts, k)
                   /\ heap[login(k, s)].balance = PersistedBalance(k)

\* C3: for every account a of the ledger, the line to_string(a) unpacks as
\* load_accounts unpacks it and gives back an account equal to a in its
\* number, digest, type and balance
C3_RoundTrip ==
    \A i \in 1..Len(accounts) :
        LET a == heap[accounts[i].ref]
        IN  /\ line_ok(to_string(a))
            /\ load_line(to_string(a)) = a

\* the file holds the sender's line as it is in memory (debited) only if it
\* also holds the recipient's line as it is in memory (credited)
DebitImpliesCredit ==
    (fileExists /\ \E i \in 1..Len(file) : file[i] = to_string(heap[account]))
        => \E j \in 1..Len(file) : file[j] = to_string(heap[Get(accounts, op.num)])

\* C4: in a transfer between two distinct accounts the debit and the credit
\* are both in memory before the save starts (memory does not change while
\* the file is written), and in no state of the save does the file record
\* the sender's debited balance without the recipient's credited balance
\* (stated for the positive amounts, where debit and credit are what they say)
C4_TransferDurableTogether ==
    [][(/\ op'.name = "transfer"
        /\ op'.amount > 0
        /\ pc' \in Saving
        /\ heap'[account'].account_number # op'.num)
          => /\ pc \in Saving => heap' = heap
             /\ DebitImpliesCredit']_vars

\* C5: a transfer that fails leaves memory and the file as they were: an
\* unknown recipient is reported first, whatever the sender's balance, and a
\* balance below the amount is reported with no deposit and no save
C5_FailedTransferChangesNothing ==
    [][(InSession /\ op'.name = "transfer")
          => /\ op'.num \notin Keys(accounts) => op'.ret = "no_recipient"
             /\ (op'.num \in Keys(accounts)
                    /\ heap[account].balance < op'.amount)
                  => op'.ret = "insufficient"
             /\ op'.ret \in {"no_recipient", "insufficient"}
                  => /\ UNCHANGED <<heap, accounts, file, fileExists, account>>
                     /\ pc' = "prompt"
                     /\ op'.saves = 0]_vars

C5_Witness ==
    /\ InSession
    /\ op.name = "transfer"
    /\ op.ret = "no_recipient"
    /\ heap[account].balance < op.amount

WithdrawCalled ==
    /\ InSession
    /\ \/ op'.name = "withdraw"
       \/ op'.name = "transfer" /\ op'.num \in Keys(accounts)

Committed ==
    (pc = "prompt" /\ op.name \in Mutating)
        => \/ /\ op.ret = "ok"
              /\ op.saves = 1
              /\ fileExists
              /\ file = Serialized(heap, accounts)
           \/ /\ op.ret \in {"insufficient", "no_recipient", "failed"}
              /\ op.saves = 0

\* C8: no operation partially commits: after a reported success the file
\* holds exactly the ledger in memory, written by one save; a reported
\* failure called no save and left memory and file as they were
C8_NoPartialCommit ==
    [][/\ Committed'
       /\ (pc = "prompt" /\ pc' = "prompt" /\ op'.name \in Mutating)
          => UNCHANGED <<heap, accounts, file, fileExists>>]_vars

C8_Witness ==
    /\ pc = "prompt"
    /\ op.name = "delete"
    /\ op.ret = "ok"
    /\ Len(accounts) = 2
    /\ file = Serialized(heap, accounts)

\* the step in which create_account inserts the new account
CreateCalled == AtMenu /\ op'.name = "create"

\* C9: create_account adds exactly one account, with balance zero, under a
\* number that no account in the ledger has and no deleted account had, and
\* every account that was in the ledger is still there, unchanged
C9_CreateAddsFreshAccount ==
    [][CreateCalled
          => /\ op'.num \notin Keys(accounts)
             /\ op'.num \notin deleted
             /\ Keys(accounts') = Keys(accounts) \cup {op'.num}
             /\ heap'[Get(accounts', op'.num)].balance = 0
             /\ \A k \in Keys(accounts) :
                    heap'[Get(accounts', k)] = heap[Get(accounts, k)]]_vars

\* C10: delete_account(number) returns True iff the number is in the ledger,
\* and then the number is gone from the dictionary and, once saved, from the
\* file; on an absent number it returns False and changes nothing; and from
\* then on no login with a deleted number succeeds, whatever the secret
C10_DeletionPermanent ==
    [][/\ (InSession /\ op'.name = "delete")
          => LET k == heap[account].account_number
             IN  /\ (op'.ret = "pending") <=> (k \in Keys(accounts))
                 /\ op'.ret = "pending" => k \notin Keys(accounts')
                 /\ op'.ret # "pending"
                      => /\ op'.ret = "failed"
                         /\ UNCHANGED <<heap, accounts, file, fileExists>>
       /\ (pc \in Saving /\ op.name = "delete" /\ pc' = "prompt")
          => \A i \in 1..Len(file') :
                 line_fields(file'[i])[1] # heap[account].account_number
       /\ AtMenu'
          => \A k \in deleted : \A s \in LoginInputs :
                 login(k, s)' = None]_vars

\* the account that loading the file would store under number k
Reloaded(k) == load_line(file[Get(load_dict(file, Len(file)), k)])

\* C11: after completed operations, reloading the backing file (a new
\* BankingApp) gives a ledger with the same account numbers, and each account
\* has the same type and the same balance as in memory before the reload
C11_BalancesSurviveRestart ==
    (pc = "prompt" /\ fileExists)
        => /\ \A i \in 1..Len(file) : line_ok(file[i])
           /\ Keys(load_dict(file, Len(file))) = Keys(accounts)
           /\ \A k \in Keys(accounts) :
                  /\ Reloaded(k).account_type
                         = heap[Get(accounts, k)].account_type
                  /\ Reloaded(k).balance = heap[Get(accounts, k)].balance

\* p is hash_password of something
IsDigest(p) == Len(p) > 0 /\ p = hash_password(Tail(p))

\* p is one of the comma-separated fields of the line
HasField(line, p) ==
    LET t == strip(line)
    IN  \E a \in 1..(Len(t) - Len(p) + 1) :
            /\ a = 1 \/ t[a - 1] = ","
            /\ a + Len(p) - 1 = Len(t) \/ t[a + Len(p)] = ","
            /\ \A j \in 1..Len(p) : t[a + j - 1] = p[j]

\* C12: the plaintext secret is never stored: in every state no account in
\* memory has a secret that create_account can generate as its credential,
\* only a hash output, and no field of any line of the file equals such a
\* secret; the plaintext is printed only by create_account, when it returns,
\* and is then the secret generated for an account of the ledger
C12_PlaintextNeverStored ==
    /\ \A r \in DOMAIN heap :
           /\ heap[r].password \notin Passwords
           /\ IsDigest(heap[r].password)
    /\ \A i \in 1..Len(file) : \A p \in Passwords : ~HasField(file[i], p)
    /\ op.out # <<>> => op.name = "create" /\ op.ret = "ok"
    /\ (op.name = "create" /\ op.ret = "ok")
           => \E k \in Keys(accounts) : issued[k] = op.out

C12_Witness ==
    /\ AtMenu
    /\ restarts > 0
    /\ op.name = "create"
    /\ op.out \in Passwords
    /\ Len(accounts) = 2
    /\ \E r \in DOMAIN heap : heap[r].password = hash_password(hash_password(op.out))

SessionOps == {"deposit", "withdraw", "transfer", "delete"}

\* C13: the loop follows Anonymous -> Authenticated -> Anonymous: the one
\* session handle is set only by a successful login and dropped only by
\* logout or by a successful delete; while set it stays on the same account;
\* deposit, withdraw, transfer and delete are started only with the handle
\* set, on an account of the ledger; and a successful delete ends the
\* session, so that nothing more is applied to the deleted account
C13_SessionStateMachine ==
    [][/\ (account = None /\ account' # None)
          => op'.name = "login" /\ op'.ret = "ok"
       /\ (account # None /\ account' = None)
          => \/ op'.name = "logout"
             \/ op'.name = "delete" /\ op'.ret = "ok"
       /\ (account # None /\ account' # None)
          => heap'[account'].account_number = heap[account].account_number
       /\ (pc = "prompt" /\ op'.name \in SessionOps)
          => /\ account # None
             /\ account \in Refs(accounts)
             /\ accounts[account].key = heap[account].account_number
       /\ (op'.name = "delete" /\ op'.ret = "ok")
          => /\ account' = None
             /\ DOMAIN heap' = Refs(accounts')]_vars

C13_Witness ==
    /\ AtMenu
    /\ op.name = "delete"
    /\ op.ret = "ok"
    /\ Len(accounts) > 0
    /\ deleted # {}
    /\ DOMAIN heap = Refs(accounts)

\* the step in which the program is started and BankingApp() loads the file
StartCalled == pc \in {"exited", "crashed"} /\ op'.name = "start"

\* C14: load_accounts gives an empty ledger, and no error, when the file
\* does not exist; when some line does not split into four fields or its
\* balance is not a number, loading ends the program with the error, with no
\* ledger, and nothing is done afterwards but starting the program again
C14_LoadAllOrError ==
    [][/\ (StartCalled /\ ~fileExists)
          => /\ pc' = "prompt"
             /\ op'.ret = "ok"
             /\ accounts' = <<>>
       /\ (StartCalled /\ fileExists /\ \E i \in 1..Len(file) : ~line_ok(file[i]))
          => /\ pc' = "crashed"
             /\ op'.ret = "error"
             /\ accounts' = <<>>
             /\ DOMAIN heap' = {}
       /\ (StartCalled /\ fileExists /\ \A i \in 1..Len(file) : line_ok(file[i]))
          => /\ pc' = "prompt"
             /\ Len(accounts') = Len(file)
       /\ pc = "crashed"
          => /\ op'.name = "start"
             /\ UNCHANGED <<file, fileExists, account>>]_vars

C14_Witness ==
    /\ pc = "crashed"
    /\ op.name = "start"
    /\ op.ret = "error"
    /\ accounts = <<>>
    /\ Len(file) = 2
    /\ line_ok(file[1])
    /\ ~line_ok(file[2])

\* the balance that a line of the file records (its last field)
LineBalance(line) ==
    LET f == line_fields(line)
    IN  float(f[Len(f)])

\* no balance in memory is negative
NonNegativeMemory == \A r \in DOMAIN heap : heap[r].balance >= 0

\* no balance is negative, in memory or in the file
NonNegative ==
    /\ NonNegativeMemory
    /\ \A i \in 1..Len(file) : LineBalance(file[i]) >= 0

\* C15: a negative balance arises only from a deposit, withdrawal or transfer
\* called with a negative amount: as long as every amount is >= 0, every
\* balance, zero at creation, stays >= 0
C15_NegativeOnlyFromNegativeAmount ==
    [][(NonNegativeMemory /\ ~NonNegativeMemory' /\ NonNegative)
          => /\ op'.name \in {"deposit", "withdraw", "transfer"}
             /\ op'.amount < 0]_vars

C15_Witness ==
    /\ pc = "save_open"
    /\ op.name = "deposit"
    /\ op.amount < 0
    /\ heap[account].balance < 0
    /\ \A i \in 1..Len(file) : LineBalance(file[i]) >= 0

RECURSIVE Sum(_)
\* the sum of a sequence of numbers
Sum(s) == IF Len(s) = 0 THEN 0 ELSE Head(s) + Sum(Tail(s))

\* the place of the session's account in the dictionary
SenderIndex == CHOOSE i \in 1..Len(accounts) : accounts[i].ref = account

\* C16: transfer_money conserves money: when the call is over, failed or with
\* both balances updated, the balances of the ledger add up to what they
\* added up to before the call; a transfer to the sender's own account number
\* succeeds iff the balance was >= the amount and leaves the balance as it was
C16_TransferConservesMoney ==
    (op.name = "transfer" /\ op.ret # "ok" /\ pc # "transfer_deposit")
        => /\ Sum(Balances) = Sum(op.before)
           /\ op.num = heap[account].account_number
                  => /\ op.ret = "pending" <=> op.before[SenderIndex] >= op.amount
                     /\ heap[account].balance = op.before[SenderIndex]

\* the session is Authenticated: a handle is held and delete_account has not
\* removed its account
Authenticated == account # None /\ ~(op.name = "delete" /\ pc # "prompt")

\* C17: while the session is Authenticated its handle is the object that
\* the dictionary holds under the handle's account number, and once a
\* deposit, withdrawal or transfer has returned, the file holds the line of
\* that object as the handle shows it
C17_HandleIsLedgerObject ==
    Authenticated
        => /\ account \in Refs(accounts)
           /\ heap[account].account_number \in Keys(accounts)
           /\ Get(accounts, heap[account].account_number) = account
           /\ (pc = "prompt" /\ op.ret = "ok"
                   /\ op.name \in {"deposit", "withdraw", "transfer"})
                  => /\ Len(file) = Len(accounts)
                     /\ file[SenderIndex] = to_string(heap[account])

C17_Witness ==
    /\ InSession
    /\ op.name = "transfer"
    /\ op.ret = "ok"
    /\ Len(accounts) = 3
    /\ SenderIndex = 2
    /\ heap[account].balance # 0
    /\ file[2] = to_string(heap[account])

====
